---- MODULE Spec2Model ----
(***************************************************************************)
(* Model of src/analyzer.rs (taskchutecloud-cli): analyze() and the Tasks   *)
(* aggregator.                                                              *)
(*                                                                          *)
(* Representation                                                           *)
(*   Option<T>        a sequence of length <= 1: None = <<>>, Some(x) = <<x>>*)
(*   String that is   a sequence of Unicode scalar values (Rust compares    *)
(*   split or sorted  Strings bytewise, which on UTF-8 is the order of the   *)
(*                    scalar values)                                        *)
(*   NaiveDateTime    whole seconds since 1970-01-01T00:00:00               *)
(*   Duration         whole seconds                                         *)
(*   i64              an integer in -2^63 .. 2^63 - 1                        *)
(*   f64 quotient     the exact pair [num, den] of the division performed;  *)
(*                    den = 0 is the non-finite result (inf or NaN) of IEEE *)
(*   Tasks(vec, val)  the tuple <<vec, val>> (self.0 is self[1], self.1 is  *)
(*                    self[2])                                              *)
(***************************************************************************)
EXTENDS Integers, Sequences, FiniteSets

VARIABLES tasks, project_id, value, result

vars == <<tasks, project_id, value, result>>

\* ------------------------------------------------------------------ Option
None == <<>>
Some(x) == <<x>>
IsSome(o) == Len(o) = 1
Unwrap(o) == o[1]

\* ------------------------------------------------------------------ chrono
\* NaiveDateTime::date(): the calendar day, counted from 1970-01-01.
Date(ts) == ts \div 86400

\* Datelike::weekday(): 0 = Mon .. 5 = Sat, 6 = Sun (1970-01-01 is a Thursday).
Weekday(ts) == (Date(ts) + 3) % 7

\* Duration::num_minutes(): whole minutes, truncated toward zero.
NumMinutes(d) == IF d >= 0 THEN d \div 60 ELSE -((-d) \div 60)

\* ------------------------------------------------------------------ strings
\* char::is_whitespace (the Unicode White_Space property).
WhiteSpace == {9, 10, 11, 12, 13, 32, 133, 160, 5760, 8232, 8233, 8239, 8287, 12288}
                \cup (8192 .. 8202)

RECURSIVE SplitFrom(_, _, _)
\* The tokens of s from position i on, cur being the token under construction.
SplitFrom(s, i, cur) ==
    IF i > Len(s)
    THEN IF cur = <<>> THEN <<>> ELSE <<cur>>
    ELSE IF s[i] \in WhiteSpace
         THEN IF cur = <<>>
              THEN SplitFrom(s, i + 1, <<>>)
              ELSE <<cur>> \o SplitFrom(s, i + 1, <<>>)
         ELSE SplitFrom(s, i + 1, Append(cur, s[i]))

\* str::split_whitespace(): the maximal runs of non-whitespace characters.
SplitWhitespace(s) == SplitFrom(s, 1, <<>>)

RECURSIVE LexLess(_, _)
\* String (and key) order: lexicographic, a proper prefix first.
LexLess(a, b) ==
    IF b = <<>> THEN FALSE
    ELSE IF a = <<>> THEN TRUE
    ELSE IF a[1] # b[1] THEN a[1] < b[1]
    ELSE LexLess(Tail(a), Tail(b))

\* The labels of the day breakdown and the placeholder of the group breakdown.
LabelKyujitsu == <<20241, 26085>>    \* "休日" (holiday)
LabelHeijitsu == <<24179, 26085>>    \* "平日" (workday)
LabelNoGroup == <<45>>               \* "-"

\* ------------------------------------------------------------------ sorting
RECURSIVE InsertByKey(_, _)
\* p = <<key, item>> inserted into the sorted s behind every pair whose key is
\* not greater: inserting left to right is a stable sort.
InsertByKey(p, s) ==
    IF s = <<>> THEN <<p>>
    ELSE IF LexLess(p[1], s[1][1])
         THEN <<p>> \o s
         ELSE <<s[1]>> \o InsertByKey(p, Tail(s))

\* Mutant: no sort, the pairs stay in input order.
SortedByKey_Unsorted(ps) == ps

RECURSIVE SortedByKey(_)
\* Itertools::sorted / sorted_by_key (slice::sort, stable) on <<key, item>> pairs.
SortedByKey(ps) ==
    IF ps = <<>> THEN <<>>
    ELSE InsertByKey(ps[Len(ps)], SortedByKey(SubSeq(ps, 1, Len(ps) - 1)))

RECURSIVE GroupConsecutive_LastOnly(_)
\* Mutant: a run keeps only its last item.
GroupConsecutive_LastOnly(ps) ==
    IF ps = <<>> THEN <<>>
    ELSE LET rest == GroupConsecutive_LastOnly(SubSeq(ps, 1, Len(ps) - 1))
             p == ps[Len(ps)]
         IN  IF rest # <<>> /\ rest[Len(rest)][1] = p[1]
             THEN [rest EXCEPT ![Len(rest)] = <<p[1], <<p[2]>>>>]
             ELSE Append(rest, <<p[1], <<p[2]>>>>)

RECURSIVE GroupConsecutive(_)
\* Itertools::group_by: runs of consecutive pairs with equal keys, as
\* <<key, items>>.
GroupConsecutive(ps) ==
    IF ps = <<>> THEN <<>>
    ELSE LET rest == GroupConsecutive(SubSeq(ps, 1, Len(ps) - 1))
             p == ps[Len(ps)]
         IN  IF rest # <<>> /\ rest[Len(rest)][1] = p[1]
             THEN [rest EXCEPT ![Len(rest)] = <<p[1], Append(rest[Len(rest)][2], p[2])>>]
             ELSE Append(rest, <<p[1], <<p[2]>>>>)

\* ------------------------------------------------------------------ i64
\* x is in the range of i64, -2^63 .. 2^63 - 1: floor(x / 2^63) is -1 or 0.
\* The division by 2^63 is made in three steps of 2^21, which keeps every
\* intermediate value as small as x.
InI64(x) == (((x \div (2 ^ 21)) \div (2 ^ 21)) \div (2 ^ 21)) \in {-1, 0}

\* The two's complement value of x in 64 bits: i64::wrapping_add's result for
\* the exact sum x.
Wrap(x) == IF InI64(x) THEN x ELSE ((x + 2 ^ 63) % (2 ^ 64)) - 2 ^ 63

RECURSIVE sum_i64(_)
\* Iterator::sum::<i64> without overflow checks: a left fold of wrapping
\* additions from 0.
sum_i64(s) ==
    IF s = <<>> THEN 0
    ELSE Wrap(sum_i64(SubSeq(s, 1, Len(s) - 1)) + s[Len(s)])

\* Iterator::sum::<i64> with overflow checks panics ("attempt to add with
\* overflow") when an addition of the fold leaves the range of i64.
sum_overflows(s) ==
    \E n \in 1 .. Len(s) : ~InI64(sum_i64(SubSeq(s, 1, n - 1)) + s[n])

RECURSIVE SumSeq(_)
\* Iterator::sum::<f64>, kept exact.
SumSeq(s) == IF s = <<>> THEN 0 ELSE s[1] + SumSeq(Tail(s))

RECURSIVE FilterSeq(_, _)
\* The subsequence of s at the positions in keep.
FilterSeq(s, keep) ==
    IF s = <<>> THEN <<>>
    ELSE LET front == FilterSeq(SubSeq(s, 1, Len(s) - 1), keep)
         IN  IF Len(s) \in keep THEN Append(front, s[Len(s)]) ELSE front

\* ------------------------------------------------------------------ records
\* impl From<Task> for AnalysisResultTask: the unwraps of begin_time and
\* end_time panic on None.
FromPanics(task) == ~IsSome(task.begin_time) \/ ~IsSome(task.end_time)

\* The group label: the first token when the name has at least two tokens
\* (the first element of the first 2-combination of the tokens).
GroupOf(name) ==
    LET toks == SplitWhitespace(name)
    IN  IF Len(toks) >= 2 THEN Some(toks[1]) ELSE None

\* The per-record ratio: timespan minutes over estimated minutes, as f64.
TimeGapRatio(task) ==
    IF IsSome(task.estimated_time)
    THEN Some([num |-> NumMinutes(Unwrap(task.end_time) - Unwrap(task.begin_time)),
               den |-> NumMinutes(Unwrap(task.estimated_time))])
    ELSE None

\* impl From<Task> for AnalysisResultTask, for a task with both timestamps.
FromTask(task) ==
    [id |-> task.id,
     name |-> task.name,
     group |-> GroupOf(task.name),
     project |-> task.project,
     comment |-> task.comment,
     estimated_time |-> IF IsSome(task.estimated_time)
                        THEN Some(NumMinutes(Unwrap(task.estimated_time)))
                        ELSE None,
     time_gap_ratio |-> TimeGapRatio(task),
     begin_time |-> Unwrap(task.begin_time),
     end_time |-> Unwrap(task.end_time),
     timespan |-> NumMinutes(Unwrap(task.end_time) - Unwrap(task.begin_time)),
     holiday |-> task.holiday]

\* ------------------------------------------------------------------ Tasks
\* Mutant: the project test accepts any project.
ProjectMatches_AnyProject(t, pid) == IsSome(t.project)

\* The closure of both filters' project test: the project is present and its
\* id is the target's.
ProjectMatches(t, pid) == IF IsSome(t.project) THEN Unwrap(t.project).id = pid ELSE FALSE

\* The second filter of analyze: begin_time.and(end_time).is_some().
HasBothTimes(t) == IsSome(t.begin_time) /\ IsSome(t.end_time)

\* Tasks::group_by: stable sort by key, then runs of equal keys, each run a
\* Tasks carrying self.1. The closure key is a function on the records.
group_by(self, key) ==
    LET ps == [i \in 1 .. Len(self[1]) |-> <<key[self[1][i]], self[1][i]>>]
        gs == GroupConsecutive(SortedByKey(ps))
    IN  [i \in 1 .. Len(gs) |-> <<gs[i][1], <<gs[i][2], self[2]>>>>]

\* Tasks::project_name: the project name of the first record of the project.
project_name(self, pid) ==
    LET hits == {i \in 1 .. Len(self[1]) : ProjectMatches(self[1][i], pid)}
    IN  IF hits = {} THEN None
        ELSE LET first == CHOOSE i \in hits : \A j \in hits : i <= j
             IN  Some(Unwrap(self[1][first].project).name)

\* The estimates total_estimated_time sums: those that are present, in order.
EstimatedMinutes(self) ==
    LET present == FilterSeq(self[1], {i \in 1 .. Len(self[1]) : IsSome(self[1][i].estimated_time)})
    IN  [i \in 1 .. Len(present) |-> Unwrap(present[i].estimated_time)]

\* Tasks::total_estimated_time: the sum of the estimates that are present.
total_estimated_time(self) == sum_i64(EstimatedMinutes(self))

\* The minutes total_work_time sums.
WorkMinutes(self) ==
    [i \in 1 .. Len(self[1]) |-> NumMinutes(self[1][i].end_time - self[1][i].begin_time)]

\* Tasks::total_work_time.
total_work_time(self) == sum_i64(WorkMinutes(self))

\* Mutant: the end dates count as work days too.
work_days_WithEndDates(self) ==
    Cardinality({Date(self[1][i].begin_time) : i \in 1 .. Len(self[1])}
                    \cup {Date(self[1][i].end_time) : i \in 1 .. Len(self[1])})

\* Tasks::work_days: the number of distinct begin dates.
work_days(self) == Cardinality({Date(self[1][i].begin_time) : i \in 1 .. Len(self[1])})

\* Tasks::work_time_per_day: total_work_time as f64 / work_days as f64.
work_time_per_day(self) == [num |-> total_work_time(self), den |-> work_days(self)]

\* The runs work_time_per_days sums: <<date, timespans>> per begin date, by date.
DayTimespans(self) ==
    LET ps == [i \in 1 .. Len(self[1]) |-> <<<<Date(self[1][i].begin_time)>>, self[1][i]>>]
        gs == GroupConsecutive(SortedByKey(ps))
    IN  [i \in 1 .. Len(gs) |->
            <<gs[i][1][1], [j \in 1 .. Len(gs[i][2]) |-> gs[i][2][j].timespan]>>]

\* Tasks::work_time_per_days: <<date, sum of timespans>> per begin date, by date.
work_time_per_days(self) ==
    LET g == DayTimespans(self)
    IN  [i \in 1 .. Len(g) |-> <<g[i][1], sum_i64(g[i][2])>>]

\* The second components of work_time_per_days.
DayTotals(self) ==
    LET d == work_time_per_days(self) IN [i \in 1 .. Len(d) |-> d[i][2]]

\* Tasks::work_time_per_day_max, 0 for an empty series.
work_time_per_day_max(self) ==
    LET v == DayTotals(self)
    IN  IF v = <<>> THEN 0
        ELSE CHOOSE m \in {v[i] : i \in 1 .. Len(v)} : \A i \in 1 .. Len(v) : v[i] <= m

\* Tasks::work_time_per_day_min, 0 for an empty series.
work_time_per_day_min(self) ==
    LET v == DayTotals(self)
    IN  IF v = <<>> THEN 0
        ELSE CHOOSE m \in {v[i] : i \in 1 .. Len(v)} : \A i \in 1 .. Len(v) : m <= v[i]

\* Mutant: the lower middle element for an even length.
work_time_per_day_median_Lower(self) ==
    LET d == work_time_per_days(self)
        s == SortedByKey([i \in 1 .. Len(d) |-> <<<<d[i][2]>>, d[i][2]>>])
    IN  IF s = <<>> THEN 0 ELSE s[((Len(s) - 1) \div 2) + 1][2]

\* Tasks::work_time_per_day_median: v.get(v.len() / 2) of the sorted series,
\* 0 when out of range.
work_time_per_day_median(self) ==
    LET d == DayTotals(self)
        s == SortedByKey([i \in 1 .. Len(d) |-> <<<<d[i]>>, d[i]>>])
        idx == Len(s) \div 2
    IN  IF idx + 1 <= Len(s) THEN s[idx + 1][2] ELSE 0

\* Mutant: the divisor is the number of days.
work_time_per_day_deviation_ByDays(self) ==
    LET d == work_time_per_days(self)
        tw == total_work_time(self)
        wd == work_days(self)
    IN  [sqrt_of |->
            [num |-> SumSeq([i \in 1 .. Len(d) |-> (d[i][2] * wd - tw) * (d[i][2] * wd - tw)]),
             den |-> wd * wd * Len(d)]]

\* Tasks::work_time_per_day_deviation: sqrt(sum((v - a)^2) / len) with
\* a = tw / wd. The value is the square root of the exact quotient
\* sum((v * wd - tw)^2) / (wd^2 * len), kept as that quotient.
work_time_per_day_deviation(self) ==
    LET d == DayTotals(self)
        a == work_time_per_day(self)
    IN  [sqrt_of |->
            [num |-> SumSeq([i \in 1 .. Len(d) |->
                                (d[i] * a.den - a.num) * (d[i] * a.den - a.num)]),
             den |-> a.den * a.den * Len(self[1])]]

\* Tasks::work_time_per_value: None without a value, else tw as f64 / v as f64.
work_time_per_value(self) ==
    IF IsSome(self[2])
    THEN Some([num |-> total_work_time(self), den |-> Unwrap(self[2])])
    ELSE None

\* Tasks::tasks.
Tasks_tasks(self) == self[1]

\* Mutant: the division is not guarded.
total_time_gap_ratio_Unguarded(tw, te) == Some([num |-> tw, den |-> te])

\* The guard of total_time_gap_ratio in Tasks::analyze.
total_time_gap_ratio(tw, te) == IF te = 0 THEN None ELSE Some([num |-> tw, den |-> te])

\* Tasks::analyze panics with overflow checks when one of its i64 sums
\* overflows: total_work_time, total_estimated_time or a day's total.
Tasks_analyze_overflows(self) ==
    \/ sum_overflows(WorkMinutes(self))
    \/ sum_overflows(EstimatedMinutes(self))
    \/ \E i \in 1 .. Len(DayTimespans(self)) : sum_overflows(DayTimespans(self)[i][2])

\* Tasks::analyze.
Tasks_analyze(self) ==
    [total_estimated_time |-> total_estimated_time(self),
     total_work_time |-> total_work_time(self),
     total_time_gap_ratio |-> total_time_gap_ratio(total_work_time(self), total_estimated_time(self)),
     work_days |-> work_days(self),
     work_time_per_day |-> work_time_per_day(self),
     work_time_per_day_max |-> work_time_per_day_max(self),
     work_time_per_day_min |-> work_time_per_day_min(self),
     work_time_per_day_median |-> work_time_per_day_median(self),
     work_time_per_day_deviation |-> work_time_per_day_deviation(self),
     work_time_per_value |-> work_time_per_value(self),
     tasks |-> Tasks_tasks(self)]

\* ------------------------------------------------------------------ analyze
\* Mutant: the holiday flag is ignored.
day_key_WeekendOnly(t) ==
    IF Weekday(t.begin_time) \in {5, 6} THEN LabelKyujitsu ELSE LabelHeijitsu

\* A closure on the records of self, as the function group_by applies.
Records(self) == {self[1][i] : i \in 1 .. Len(self[1])}

\* The key of the day breakdown.
day_key(t) ==
    IF Weekday(t.begin_time) \in {5, 6}
    THEN LabelKyujitsu
    ELSE IF t.holiday THEN LabelKyujitsu ELSE LabelHeijitsu

\* The key of the group breakdown.
group_key(t) == IF IsSome(t.group) THEN Unwrap(t.group) ELSE LabelNoGroup

\* analyze_group: each bucket's Tasks replaced by its analysis.
analyze_group(g) == [i \in 1 .. Len(g) |-> <<g[i][1], Tasks_analyze(g[i][2])>>]

\* The raw tasks analyze keeps: both filters, in input order.
Kept(ts, pid) ==
    FilterSeq(ts, {i \in 1 .. Len(ts) : ProjectMatches(ts[i], pid) /\ HasBothTimes(ts[i])})

\* target_tasks of analyze: the kept tasks converted and sorted by begin_time.
target_tasks(ts, pid, v) ==
    LET kept == Kept(ts, pid)
        sorted == SortedByKey([i \in 1 .. Len(kept) |->
                                  <<<<FromTask(kept[i]).begin_time>>, FromTask(kept[i])>>])
    IN  <<[i \in 1 .. Len(sorted) |-> sorted[i][2]], v>>

\* analyze, built with (overflow_checks) or without overflow checks: "panic"
\* when a conversion unwraps None or, with overflow checks, an i64 sum
\* overflows; "none" for the early return of `?`; else the report.
analyze(ts, pid, v, overflow_checks) ==
    IF \E i \in 1 .. Len(Kept(ts, pid)) : FromPanics(Kept(ts, pid)[i])
    THEN [kind |-> "panic"]
    ELSE LET tt == target_tasks(ts, pid, v)
             pn == project_name(tt, pid)
             day == group_by(tt, [t \in Records(tt) |-> day_key(t)])
             group == group_by(tt, [t \in Records(tt) |-> group_key(t)])
         IN  IF ~IsSome(pn)
             THEN [kind |-> "none"]
             ELSE IF /\ overflow_checks
                     /\ \/ Tasks_analyze_overflows(tt)
                        \/ \E i \in 1 .. Len(day) : Tasks_analyze_overflows(day[i][2])
                        \/ \E i \in 1 .. Len(group) : Tasks_analyze_overflows(group[i][2])
             THEN [kind |-> "panic"]
             ELSE [kind |-> "some",
                   project_name |-> Unwrap(pn),
                   value |-> v,
                   all |-> Tasks_analyze(tt),
                   day |-> analyze_group(day),
                   group |-> analyze_group(group)]

\* ------------------------------------------------------------------ inputs
\* The longest Vec<Task> passed to analyze.
MaxTasks == 3

\* A NaiveDateTime: day d after 1970-01-01 (day 4 is Monday 1970-01-05), h:m:s.
At(d, h, m, s) == d * 86400 + h * 3600 + m * 60 + s

ProjP == [id |-> "P", name |-> "Alpha"]
ProjQ == [id |-> "Q", name |-> "Beta"]

\* A crate::Task.
Task(id, name, project, estimated_time, begin_time, end_time, holiday) ==
    [id |-> id, name |-> name, project |-> project, comment |-> None,
     estimated_time |-> estimated_time, begin_time |-> begin_time,
     end_time |-> end_time, holiday |-> holiday]

\* The raw tasks the input vectors are drawn from.
TaskPool ==
    { \* "D S", Monday 09:00 - 11:00, estimate 90 min
      Task("1", <<68, 32, 83>>, Some(ProjP), Some(5400),
           Some(At(4, 9, 0, 0)), Some(At(4, 11, 0, 0)), FALSE),
      \* "D R", Tuesday 09:00 - 09:30, no estimate
      Task("2", <<68, 32, 82>>, Some(ProjP), None,
           Some(At(5, 9, 0, 0)), Some(At(5, 9, 30, 0)), FALSE),
      \* "S", Monday 13:00:00 - 13:10:59, estimate 30 s (0 min)
      Task("3", <<83>>, Some(ProjP), Some(30),
           Some(At(4, 13, 0, 0)), Some(At(4, 13, 10, 59)), FALSE),
      \* "O<U+3000>F", Saturday 10:00 - 09:00 (end before begin), estimate -90 min
      Task("4", <<79, 12288, 70>>, Some(ProjP), Some(-5400),
           Some(At(9, 10, 0, 0)), Some(At(9, 9, 0, 0)), FALSE),
      \* " X", Tuesday 09:00:00 - 09:00:59, holiday flag set
      Task("5", <<32, 88>>, Some(ProjP), None,
           Some(At(5, 9, 0, 0)), Some(At(5, 9, 0, 59)), TRUE),
      \* "D S" of another project
      Task("6", <<68, 32, 83>>, Some(ProjQ), Some(1800),
           Some(At(4, 9, 0, 0)), Some(At(4, 10, 0, 0)), FALSE),
      \* "D S" without a project
      Task("7", <<68, 32, 83>>, None, None,
           Some(At(4, 9, 0, 0)), Some(At(4, 10, 0, 0)), FALSE),
      \* "D S" without a begin time
      Task("8", <<68, 32, 83>>, Some(ProjP), None,
           None, Some(At(4, 10, 0, 0)), FALSE),
      \* "D S" without an end time
      Task("9", <<68, 32, 83>>, Some(ProjP), None,
           Some(At(4, 9, 0, 0)), None, FALSE),
      \* "R T", Sunday 23:30 - Monday 00:30
      Task("10", <<82, 32, 84>>, Some(ProjP), None,
           Some(At(10, 23, 30, 0)), Some(At(11, 0, 30, 0)), FALSE) }

ProjectIds == {"P", "Q"}

Values == {None, Some(0), Some(4)}

TaskVecs == UNION {[1 .. n -> TaskPool] : n \in 0 .. MaxTasks}

\* ------------------------------------------------------------------ machine
Pending == [kind |-> "pending"]

Init ==
    /\ tasks \in TaskVecs
    /\ project_id \in ProjectIds
    /\ value \in Values
    /\ result = Pending

\* The call analyze(tasks, project_id, value), in a build with or without
\* overflow checks.
Analyze ==
    /\ result = Pending
    /\ \E overflow_checks \in BOOLEAN :
          result' = analyze(tasks, project_id, value, overflow_checks)
    /\ UNCHANGED <<tasks, project_id, value>>

Next == Analyze

Spec == Init /\ [][Next]_vars

\* ------------------------------------------------------------------ report views
Returned == result.kind = "some"

\* Every bucket of the report: all, the day buckets, the group buckets.
Buckets ==
    <<result.all>>
        \o [i \in 1 .. Len(result.day) |-> result.day[i][2]]
        \o [i \in 1 .. Len(result.group) |-> result.group[i][2]]

\* The raw tasks of the target project with both timestamps, in input order.
Complete == {i \in 1 .. Len(tasks) :
                /\ tasks[i].project # None
                /\ tasks[i].project[1].id = project_id
                /\ tasks[i].begin_time # None
                /\ tasks[i].end_time # None}

RECURSIVE MathSum(_)
\* The sum of a sequence of integers.
MathSum(s) == IF s = <<>> THEN 0 ELSE s[1] + MathSum(Tail(s))

\* What identifies a record with the raw task it was built from.
RecordPrint(r) == <<r.id, r.name, r.project, r.begin_time, r.end_time, r.holiday>>
RawPrint(t) == <<t.id, t.name, t.project, t.begin_time[1], t.end_time[1], t.holiday>>

\* ------------------------------------------------------------------ C1
\* C1: analyze returns "no result" exactly when no raw task has the target
\* project id and both timestamps (also when tasks of the project exist but
\* each lacks a timestamp); otherwise it returns a report whose project_name
\* is the name of the matching project; it never panics.
\* Over task lists of at most MaxTasks tasks no i64 sum leaves the range of
\* i64, so the panic of sum_overflows is not among the reachable outcomes.
C1_NoResultExactlyWhenNoCompleteTask ==
    result # Pending =>
        /\ result.kind # "panic"
        /\ (result.kind = "none") <=> (Complete = {})
        /\ result.kind = "some" =>
              \E i \in Complete : result.project_name = tasks[i].project[1].name

\* "No result" although tasks of the project are present: each lacks a timestamp.
C1_Witness ==
    /\ result.kind = "none"
    /\ \E i \in 1 .. Len(tasks) :
          /\ tasks[i].project # None
          /\ tasks[i].project[1].id = project_id
          /\ tasks[i].begin_time = None
    /\ \E i \in 1 .. Len(tasks) :
          /\ tasks[i].project # None
          /\ tasks[i].project[1].id = project_id
          /\ tasks[i].end_time = None

\* ------------------------------------------------------------------ C2
\* C2: in a report, all.tasks holds exactly one record per raw task of the
\* target project with both timestamps and no other record, in ascending
\* order of begin timestamp; and no tasks list (all, day buckets, group
\* buckets) holds a record of another project or of no project.
C2_AllTasksAreTheCompleteTasksSorted ==
    Returned =>
        /\ \A i \in Complete :
              Cardinality({j \in 1 .. Len(result.all.tasks) :
                              RecordPrint(result.all.tasks[j]) = RawPrint(tasks[i])})
                  = Cardinality({j \in Complete : RawPrint(tasks[j]) = RawPrint(tasks[i])})
        /\ \A j \in 1 .. Len(result.all.tasks) :
              \E i \in Complete : RecordPrint(result.all.tasks[j]) = RawPrint(tasks[i])
        /\ \A i, j \in 1 .. Len(result.all.tasks) :
              i < j => result.all.tasks[i].begin_time <= result.all.tasks[j].begin_time
        /\ \A b \in 1 .. Len(Buckets) : \A j \in 1 .. Len(Buckets[b].tasks) :
              /\ Buckets[b].tasks[j].project # None
              /\ Buckets[b].tasks[j].project[1].id = project_id

\* A report from an input that holds a task that is not of the target project
\* and two complete tasks given in descending begin order.
C2_Witness ==
    /\ Returned
    /\ \E i \in 1 .. Len(tasks) :
          tasks[i].project = None \/ tasks[i].project[1].id # project_id
    /\ \E i, j \in Complete :
          i < j /\ tasks[i].begin_time[1] > tasks[j].begin_time[1]

\* ------------------------------------------------------------------ C3
\* The sum of total_work_time over a breakdown's buckets.
BreakdownWorkTime(bd) == MathSum([i \in 1 .. Len(bd) |-> bd[i][2].total_work_time])

\* C3 (sum law): in a report, the day buckets' total_work_time sum to
\* all.total_work_time, and so do the group buckets', also with negative
\* timespans.
C3_SumLaw ==
    Returned =>
        /\ BreakdownWorkTime(result.day) = result.all.total_work_time
        /\ BreakdownWorkTime(result.group) = result.all.total_work_time

\* A report with two day buckets, several group buckets and a negative timespan.
C3_Witness ==
    /\ Returned
    /\ Len(result.day) = 2
    /\ Len(result.group) >= 2
    /\ \E j \in 1 .. Len(result.all.tasks) : result.all.tasks[j].timespan < 0
    /\ result.all.total_work_time # 0

\* ------------------------------------------------------------------ C4
\* a sorts strictly before b as a String.
StrictlyBefore(a, b) ==
    \E k \in 1 .. Len(b) :
        /\ \A i \in 1 .. (k - 1) : i <= Len(a) /\ a[i] = b[i]
        /\ (k = Len(a) + 1 \/ (k <= Len(a) /\ a[k] < b[k]))

\* The buckets group_by(key) returns for parent are a partition of parent by
\* key: the bucket labelled L holds the records of parent whose key is L, in
\* parent's order; every key of a record labels a bucket; labels ascend
\* strictly (so no label occurs twice); every bucket carries parent's value.
IsPartitionBy(gs, parent, key) ==
    /\ \A i \in 1 .. Len(gs) :
          /\ gs[i][2][1] = SelectSeq(parent[1], LAMBDA r : key[r] = gs[i][1])
          /\ gs[i][2][1] # <<>>
          /\ gs[i][2][2] = parent[2]
    /\ \A j \in 1 .. Len(parent[1]) : \E i \in 1 .. Len(gs) : gs[i][1] = key[parent[1][j]]
    /\ \A i \in 1 .. (Len(gs) - 1) : StrictlyBefore(gs[i][1], gs[i + 1][1])
    /\ MathSum([i \in 1 .. Len(gs) |-> Len(gs[i][2][1])]) = Len(parent[1])

\* C4: group_by partitions the collection: every record is in exactly one
\* bucket, the one labelled with its key; labels are distinct and ascending;
\* records keep their relative order; every bucket carries the parent's value.
C4_GroupByPartitions ==
    Returned =>
        LET parent == target_tasks(tasks, project_id, value)
            by_day == [t \in Records(parent) |-> day_key(t)]
            by_group == [t \in Records(parent) |-> group_key(t)]
        IN  /\ parent[1] = result.all.tasks
            /\ IsPartitionBy(group_by(parent, by_day), parent, by_day)
            /\ IsPartitionBy(group_by(parent, by_group), parent, by_group)
            /\ Len(result.day) = Len(group_by(parent, by_day))
            /\ Len(result.group) = Len(group_by(parent, by_group))
            /\ \A i \in 1 .. Len(result.day) :
                  /\ result.day[i][1] = group_by(parent, by_day)[i][1]
                  /\ result.day[i][2].tasks = group_by(parent, by_day)[i][2][1]
            /\ \A i \in 1 .. Len(result.group) :
                  /\ result.group[i][1] = group_by(parent, by_group)[i][1]
                  /\ result.group[i][2].tasks = group_by(parent, by_group)[i][2][1]

\* A report whose group breakdown has a bucket of two records that are not
\* adjacent in the parent collection, and a second bucket, with a value carried.
C4_Witness ==
    /\ Returned
    /\ value # None
    /\ Len(result.group) >= 2
    /\ \E i \in 1 .. Len(result.group) :
          /\ Len(result.group[i][2].tasks) = 2
          /\ result.group[i][2].tasks[1].id # result.group[i][2].tasks[2].id
          /\ \E j \in 1 .. (Len(result.all.tasks) - 1) :
                /\ result.all.tasks[j].id = result.group[i][2].tasks[1].id
                /\ result.all.tasks[j + 1].id # result.group[i][2].tasks[2].id

\* ------------------------------------------------------------------ C5
\* The begin timestamp falls on a Saturday or a Sunday (1970-01-03 is a
\* Saturday, day 2).
OnWeekend(ts) == ((ts \div 86400) - 2) % 7 \in {0, 1}

\* The day breakdown with the labels l_holiday and l_workday: a record is in
\* the bucket labelled l_holiday if its begin is on a weekend or its holiday
\* flag is set, else in the bucket labelled l_workday; at most two buckets.
DayBreakdownLabelled(l_holiday, l_workday) ==
    /\ Len(result.day) <= 2
    /\ \A i \in 1 .. Len(result.day) :
          /\ result.day[i][1] \in {l_holiday, l_workday}
          /\ \A j \in 1 .. Len(result.day[i][2].tasks) :
                LET r == result.day[i][2].tasks[j]
                IN  result.day[i][1] =
                        IF OnWeekend(r.begin_time) \/ r.holiday THEN l_holiday ELSE l_workday

\* C5 as stated: the day labels are the strings "holiday" and "workday".
C5_Original ==
    Returned => DayBreakdownLabelled(<<104, 111, 108, 105, 100, 97, 121>>,
                                     <<119, 111, 114, 107, 100, 97, 121>>)

\* C5 (amended): a record is in the day bucket labelled "休日" (U+4F11 U+65E5)
\* if its begin timestamp is on a Saturday or Sunday or its holiday flag is
\* set, and otherwise in the bucket labelled "平日" (U+5E73 U+65E5); the day
\* list has at most two entries, labelled with these two strings.
C5_DayTypeKey ==
    Returned => DayBreakdownLabelled(<<20241, 26085>>, <<24179, 26085>>)

\* A report whose holiday bucket holds a weekday record with the holiday flag
\* and a weekend record, next to a workday bucket.
C5_Witness ==
    /\ Returned
    /\ Len(result.day) = 2
    /\ \E j \in 1 .. Len(result.day[1][2].tasks) :
          result.day[1][2].tasks[j].holiday /\ ~OnWeekend(result.day[1][2].tasks[j].begin_time)
    /\ \E j \in 1 .. Len(result.day[1][2].tasks) :
          ~result.day[1][2].tasks[j].holiday /\ OnWeekend(result.day[1][2].tasks[j].begin_time)

\* ------------------------------------------------------------------ per-day series
\* The distinct begin dates of a bucket's members.
BeginDates(b) == {b.tasks[j].begin_time \div 86400 : j \in 1 .. Len(b.tasks)}

\* The sum of the timespans of the members of b that begin on date d.
DayTotal(b, d) ==
    LET on == SelectSeq(b.tasks, LAMBDA r : r.begin_time \div 86400 = d)
    IN  MathSum([j \in 1 .. Len(on) |-> on[j].timespan])

\* ------------------------------------------------------------------ C6
\* m is the element at zero-based index k of the ascending per-day totals of b.
IsAtSortedIndex(b, m, k) ==
    /\ \E d \in BeginDates(b) : DayTotal(b, d) = m
    /\ Cardinality({d \in BeginDates(b) : DayTotal(b, d) < m}) <= k
    /\ Cardinality({d \in BeginDates(b) : DayTotal(b, d) <= m}) >= k + 1

\* C6: in every bucket, work_time_per_day_median is the element at zero-based
\* index floor(n / 2) of the ascending per-day totals, n the number of
\* distinct begin dates: the upper middle value for an even n.
C6_MedianIsUpperMiddle ==
    Returned =>
        \A i \in 1 .. Len(Buckets) :
            IsAtSortedIndex(Buckets[i], Buckets[i].work_time_per_day_median,
                            Cardinality(BeginDates(Buckets[i])) \div 2)

\* The per-day series of all is {10, 30} and the median is 30.
C6_Witness ==
    /\ Returned
    /\ {DayTotal(result.all, d) : d \in BeginDates(result.all)} = {10, 30}
    /\ Cardinality(BeginDates(result.all)) = 2
    /\ result.all.work_time_per_day_median = 30

\* ------------------------------------------------------------------ C7
RECURSIVE SumOverDates(_, _, _, _)
\* The sum over the dates ds of (wd * DayTotal - tw)^2.
SumOverDates(b, ds, wd, tw) ==
    IF ds = {} THEN 0
    ELSE LET d == CHOOSE x \in ds : TRUE
         IN  (wd * DayTotal(b, d) - tw) * (wd * DayTotal(b, d) - tw)
                 + SumOverDates(b, ds \ {d}, wd, tw)

\* C7: in every bucket, deviation^2 = sum over the distinct begin dates of
\* (day_total - mean)^2 / N with mean = total_work_time / work_days and N the
\* number of member records. With numerator and denominator multiplied by
\* work_days^2: deviation^2 is the sum of
\* (work_days * day_total - total_work_time)^2 over work_days^2 * N.
C7_DeviationDividesByRecordCount ==
    Returned =>
        \A i \in 1 .. Len(Buckets) :
            LET b == Buckets[i]
                q == b.work_time_per_day_deviation.sqrt_of
            IN  /\ q.den # 0
                /\ q.den = b.work_days * b.work_days * Len(b.tasks)
                /\ q.num = SumOverDates(b, BeginDates(b), b.work_days, b.total_work_time)

\* A bucket with more records than days, several days and a non-zero deviation;
\* and a bucket of two records on one day.
C7_Witness ==
    /\ Returned
    /\ Len(result.all.tasks) > result.all.work_days
    /\ result.all.work_days > 1
    /\ result.all.work_time_per_day_deviation.sqrt_of.num # 0
    /\ \E i \in 1 .. Len(Buckets) :
          Len(Buckets[i].tasks) = 2 /\ Cardinality(BeginDates(Buckets[i])) = 1

\* ------------------------------------------------------------------ C8
\* C8 (division guards): in every bucket, total_time_gap_ratio is absent
\* exactly when total_estimated_time is 0 and otherwise equals
\* total_work_time / total_estimated_time; work_time_per_value is absent on
\* every bucket when no value is given and present on every bucket otherwise.
C8_DivisionGuards ==
    Returned =>
        \A i \in 1 .. Len(Buckets) :
            LET b == Buckets[i]
            IN  /\ (b.total_time_gap_ratio = None) <=> (b.total_estimated_time = 0)
                /\ b.total_time_gap_ratio # None =>
                      /\ b.total_time_gap_ratio[1].den # 0
                      /\ b.total_time_gap_ratio[1].num * b.total_estimated_time
                            = b.total_work_time * b.total_time_gap_ratio[1].den
                /\ (b.work_time_per_value = None) <=> (value = None)

\* No value is given; one bucket has no estimate at all and its ratio is
\* absent, another has a ratio.
C8_Witness ==
    /\ Returned
    /\ value = None
    /\ \E i \in 1 .. Len(Buckets) :
          /\ \A j \in 1 .. Len(Buckets[i].tasks) : Buckets[i].tasks[j].estimated_time = None
          /\ Buckets[i].total_time_gap_ratio = None
    /\ \E i \in 1 .. Len(Buckets) : Buckets[i].total_time_gap_ratio # None

\* A value is given and every bucket has work_time_per_value; one bucket's
\* estimates are present and sum to 0, so its ratio is absent.
C8_WitnessValue ==
    /\ Returned
    /\ value # None
    /\ \A i \in 1 .. Len(Buckets) : Buckets[i].work_time_per_value # None
    /\ \E i \in 1 .. Len(Buckets) :
          /\ \E j \in 1 .. Len(Buckets[i].tasks) : Buckets[i].tasks[j].estimated_time # None
          /\ Buckets[i].total_time_gap_ratio = None

\* ------------------------------------------------------------------ C9
\* C9: in a report, the tasks list of all, of every day bucket and of every
\* group bucket is non-empty, and work_days is at least 1 and is the number
\* of distinct begin dates of the members.
C9_BucketsNonEmpty ==
    Returned =>
        \A i \in 1 .. Len(Buckets) :
            /\ Len(Buckets[i].tasks) >= 1
            /\ Buckets[i].work_days >= 1
            /\ Buckets[i].work_days = Cardinality(BeginDates(Buckets[i]))
            /\ Buckets[i].work_time_per_day.den # 0
            /\ Buckets[i].work_time_per_day_deviation.sqrt_of.den # 0

\* A report with a one-record bucket, and a record that ends on another date
\* than it begins.
C9_Witness ==
    /\ Returned
    /\ \E i \in 1 .. Len(Buckets) : Len(Buckets[i].tasks) = 1
    /\ Len(result.all.tasks) >= 2
    /\ \E j \in 1 .. Len(result.all.tasks) :
          result.all.tasks[j].begin_time \div 86400 # result.all.tasks[j].end_time \div 86400

\* ------------------------------------------------------------------ C10
\* C10: every division analyze performs has a non-zero denominator: each
\* record's estimated minutes when an estimate is present, the value when one
\* is given, the total estimated minutes, the work-day count and the record
\* count.
C10_NoZeroDenominator ==
    Returned =>
        \A i \in 1 .. Len(Buckets) :
            LET b == Buckets[i]
            IN  /\ \A j \in 1 .. Len(b.tasks) :
                      b.tasks[j].time_gap_ratio # None => b.tasks[j].time_gap_ratio[1].den # 0
                /\ b.work_time_per_value # None => b.work_time_per_value[1].den # 0
                /\ b.total_time_gap_ratio # None => b.total_time_gap_ratio[1].den # 0
                /\ b.work_time_per_day.den # 0
                /\ b.work_time_per_day_deviation.sqrt_of.den # 0

====
